---- MODULE Spec2Model ----
(***************************************************************************)
(* Room-synchronisation server of the real-time code editor               *)
(* (backend/index.js, carried in src/frontend/src/App.jsx lines 399-581). *)
(*                                                                         *)
(* The server is single-threaded: every socket.io handler and every timer *)
(* callback runs to completion, so each is one action.  JavaScript values *)
(* are tagged records (null, undefined, number, string); a string is the  *)
(* sequence of its characters, so trim() and truthiness are computed.     *)
(* A JavaScript Set keeps insertion order and Array.from(set) copies it,  *)
(* so a participant set is a duplicate-free sequence.                     *)
(*                                                                         *)
(* Room identifiers sent by clients are taken to differ from the          *)
(* transport's connection ids (socket.io's implicit per-socket room is    *)
(* never addressed).                                                       *)
(***************************************************************************)
EXTENDS Integers, Sequences, FiniteSets, TLC

\* ---------------------------------------------------------------- bounds
MaxBurst == 2
MaxInbox == 1

\* the sockets that may be connected at once
Conns == {"c1", "c2"}

\* ------------------------------------------------------ JavaScript values
Null == [t |-> "null", v |-> <<>>]
Undefined == [t |-> "undefined", v |-> <<>>]
NotAString == [t |-> "number", v |-> <<>>]
Str(s) == [t |-> "string", v |-> s]

IsString(x) == x.t = "string"
Truthy(x) == (x.t = "number") \/ (x.t = "string" /\ x.v # <<>>)

Whitespace == {" ", "\t", "\n"}

RECURSIVE TrimStart(_)
TrimStart(s) ==
  IF s = <<>> THEN s
  ELSE IF Head(s) \in Whitespace THEN TrimStart(Tail(s)) ELSE s

RECURSIVE TrimEnd(_)
TrimEnd(s) ==
  IF s = <<>> THEN s
  ELSE IF s[Len(s)] \in Whitespace THEN TrimEnd(SubSeq(s, 1, Len(s) - 1)) ELSE s

Trim(s) == TrimEnd(TrimStart(s))

\* ----------------------------------------------------------------- inputs
RoomKeys == {Str(<<"A">>), Str(<<"B">>)}
NameKeys == {Str(<<"a">>), Str(<<"b">>)}
CodeVals == {Str(<<>>), Str(<<"x">>)}

\* values a client may put where a non-blank string is expected
BadRoomIds == {Undefined, NotAString, Str(<<>>), Str(<<" ">>)}
BadUserNames == {Undefined, NotAString, Str(<<>>), Str(<<" ", "\t">>)}

JoinPayload(r, n) == [present |-> TRUE, roomId |-> r, userName |-> n]
NoJoinPayload == [present |-> FALSE, roomId |-> Undefined, userName |-> Undefined]
JoinPayloads ==
  {NoJoinPayload}
    \cup {JoinPayload(r, n) : r \in RoomKeys, n \in NameKeys}
    \cup {JoinPayload(r, Str(<<"a">>)) : r \in BadRoomIds}
    \cup {JoinPayload(Str(<<"A">>), n) : n \in BadUserNames}

CodePayload(r, k) == [present |-> TRUE, roomId |-> r, code |-> k]
NoCodePayload == [present |-> FALSE, roomId |-> Undefined, code |-> Undefined]
CodePayloads ==
  {NoCodePayload}
    \cup {CodePayload(r, k) : r \in RoomKeys, k \in CodeVals}
    \cup {CodePayload(r, Str(<<"x">>)) : r \in {Undefined, NotAString, Str(<<>>)}}
    \cup {CodePayload(Str(<<"A">>), k) : k \in {Undefined, NotAString}}

TypingPayload(r, n) == [present |-> TRUE, roomId |-> r, userName |-> n]
NoTypingPayload == [present |-> FALSE, roomId |-> Undefined, userName |-> Undefined]
TypingPayloads ==
  {NoTypingPayload}
    \cup {TypingPayload(r, Str(<<"a">>)) : r \in RoomKeys \cup {Undefined, NotAString}}
    \cup {TypingPayload(Str(<<"A">>), n) : n \in {Undefined, NotAString}}

\* language values: one the client's menu offers, one it does not
LanguageVals == {Str(<<"p", "y">>), Str(<<"?">>)}

LanguagePayload(r, l) == [present |-> TRUE, roomId |-> r, language |-> l]
NoLanguagePayload == [present |-> FALSE, roomId |-> Undefined, language |-> Undefined]
LanguagePayloads ==
  {NoLanguagePayload}
    \cup {LanguagePayload(r, l) : r \in RoomKeys, l \in LanguageVals}
    \cup {LanguagePayload(r, Str(<<"p", "y">>)) : r \in {Undefined, NotAString}}
    \cup {LanguagePayload(Str(<<"A">>), l) : l \in {Undefined, NotAString}}

\* ------------------------------------------------------------------ state
VARIABLES
  live,          \* connection c is a connected socket
  currentRoom,   \* socket.data.currentRoom
  userName,      \* socket.data.userName
  codeTimer,     \* socket.data._codeDebounceTimer and the roomId its callback closes over
  pendingCode,   \* socket.data._pendingCode
  rooms,         \* the room directory: Map roomId -> Set of names
  subs,          \* socket.io adapter: the rooms each socket has joined
  burst,         \* history: edits accepted since the socket's timer was idle, and the latest
  lastRoster,    \* history: payload of the last userJoined emitted per room
  nameClash,     \* history: two live sockets were recorded in one room under one name
  everJoined,    \* history: a join of the socket has been accepted
  clientCode,    \* client: the editor buffer (React state code) of the socket's page
  inbox,         \* client: the codeUpdate payloads sent to the socket, not yet handled
  edited,        \* history: the client had an edit accepted since it entered its room
  lastFlush      \* history: the last codeUpdate the server emitted

svars == <<live, currentRoom, userName, codeTimer, pendingCode, rooms, subs,
           burst, lastRoster, nameClash, everJoined>>

\* the client side; the server's handlers never read it
cvars == <<clientCode, inbox, edited, lastFlush>>

vars == <<svars, cvars>>

NoTimer == [armed |-> FALSE, roomId |-> Null]
Armed(r) == [armed |-> TRUE, roomId |-> r]

NoBurst == [n |-> 0, code |-> Null]

NoRoster == [sent |-> FALSE, users |-> <<>>]
Roster(u) == [sent |-> TRUE, users |-> u]

Range(s) == {s[i] : i \in 1 .. Len(s)}

\* mutant: add() stores an element already present a second time
SetAddAppends(s, x) == Append(s, x)

\* JavaScript Set operations on the insertion-ordered representation
SetAdd(s, x) == IF x \in Range(s) THEN s ELSE Append(s, x)
SetDelete(s, x) == SelectSeq(s, LAMBDA y : y # x)

\* io.to(r): the live sockets that joined socket.io room r
InRoom(sb, lv, r) == {c \in Conns : lv[c] /\ r \in sb[c]}

\* one emit(): the call site, the event, the socket whose handler emits, the
\* room addressed, the payload and the sockets it is delivered to
Emit(site, ev, from, room, payload, to) ==
  [site |-> site, ev |-> ev, from |-> from, room |-> room,
   payload |-> payload, to |-> to]

\* history of roster broadcasts, folded over the emits of one handler
RECURSIVE NoteRosters(_, _)
NoteRosters(lr, es) ==
  IF es = <<>> THEN lr
  ELSE NoteRosters(
         IF Head(es).ev = "userJoined"
           THEN [lr EXCEPT ![Head(es).room] = Roster(Head(es).payload)]
           ELSE lr,
         Tail(es))

\* useState("// Start coding together!")
InitialCode == Str(<<"/", "/">>)

\* no flush yet; a flush from socket c with its payload and, of the sockets
\* it went to, those connected and in their room ever since
NoFlush == [sent |-> FALSE, from |-> "", payload |-> Null, kept |-> {}]
Flushed(c, k, to) == [sent |-> TRUE, from |-> c, payload |-> k, kept |-> to]

Clash(lv, cr, un) ==
  \E c, d \in Conns :
    /\ c # d /\ lv[c] /\ lv[d]
    /\ cr[c] # Null /\ cr[c] = cr[d] /\ un[c] = un[d]

Init ==
  /\ live = [c \in Conns |-> FALSE]
  /\ currentRoom = [c \in Conns |-> Null]
  /\ userName = [c \in Conns |-> Null]
  /\ codeTimer = [c \in Conns |-> NoTimer]
  /\ pendingCode = [c \in Conns |-> Null]
  /\ rooms = << >>
  /\ subs = [c \in Conns |-> {}]
  /\ burst = [c \in Conns |-> NoBurst]
  /\ lastRoster = [r \in RoomKeys |-> NoRoster]
  /\ nameClash = FALSE
  /\ everJoined = [c \in Conns |-> FALSE]
  /\ clientCode = [c \in Conns |-> InitialCode]
  /\ inbox = [c \in Conns |-> <<>>]
  /\ edited = [c \in Conns |-> FALSE]
  /\ lastFlush = NoFlush

\* ------------------------------------------------------------- operations
\* Each handler is a result (the fields it writes and the events it emits, a
\* function of the state it runs in and of its payload) and the action that
\* installs the result.

\* io.on("connection"): a new socket with fresh per-socket state
Connect(c) ==
  /\ ~live[c]
  /\ live' = [live EXCEPT ![c] = TRUE]
  /\ currentRoom' = [currentRoom EXCEPT ![c] = Null]
  /\ userName' = [userName EXCEPT ![c] = Null]
  /\ codeTimer' = [codeTimer EXCEPT ![c] = NoTimer]
  /\ pendingCode' = [pendingCode EXCEPT ![c] = Null]
  /\ subs' = [subs EXCEPT ![c] = {}]
  /\ burst' = [burst EXCEPT ![c] = NoBurst]
  /\ everJoined' = [everJoined EXCEPT ![c] = FALSE]
  /\ UNCHANGED <<rooms, lastRoster, nameClash>>

\* mutants of safeLeaveRoom: the name stays in the set; the empty room stays
SafeLeaveRoomKeepsName(c, rms, sb, lv, roomId, name) ==
  IF ~Truthy(roomId) \/ roomId \notin DOMAIN rms
    THEN [rooms |-> rms, out |-> <<>>]
    ELSE [rooms |-> rms,
          out |-> << Emit("safeLeaveRoom", "userJoined", c, roomId,
                          rms[roomId], InRoom(sb, lv, roomId)) >>]

SafeLeaveRoomKeepsRoom(c, rms, sb, lv, roomId, name) ==
  IF ~Truthy(roomId) \/ roomId \notin DOMAIN rms
    THEN [rooms |-> rms, out |-> <<>>]
    ELSE
      LET rms2 == [rms EXCEPT ![roomId] = SetDelete(rms[roomId], name)]
      IN [rooms |-> rms2,
          out |-> << Emit("safeLeaveRoom", "userJoined", c, roomId,
                          rms2[roomId], InRoom(sb, lv, roomId)) >>]

\* mutant: the roster after a leave goes to the others only (socket.to)
SafeLeaveRoomToOthers(c, rms, sb, lv, roomId, name) ==
  IF ~Truthy(roomId) \/ roomId \notin DOMAIN rms
    THEN [rooms |-> rms, out |-> <<>>]
    ELSE
      LET set == SetDelete(rms[roomId], name)
          rms2 == IF Len(set) = 0
                    THEN [r \in DOMAIN rms \ {roomId} |-> rms[r]]
                    ELSE [rms EXCEPT ![roomId] = set]
      IN [rooms |-> rms2,
          out |-> << Emit("safeLeaveRoom", "userJoined", c, roomId,
                          IF roomId \in DOMAIN rms2 THEN rms2[roomId] ELSE <<>>,
                          InRoom(sb, lv, roomId) \ {c}) >>]

\* safeLeaveRoom(roomId, userName), called for socket c: the new directory
\* and what it emits
SafeLeaveRoom(c, rms, sb, lv, roomId, name) ==
  IF ~Truthy(roomId) \/ roomId \notin DOMAIN rms
    THEN [rooms |-> rms, out |-> <<>>]
    ELSE
      LET set == SetDelete(rms[roomId], name)
          rms2 == IF Len(set) = 0
                    THEN [r \in DOMAIN rms \ {roomId} |-> rms[r]]
                    ELSE [rms EXCEPT ![roomId] = set]
      IN [rooms |-> rms2,
          out |-> << Emit("safeLeaveRoom", "userJoined", c, roomId,
                          IF roomId \in DOMAIN rms2 THEN rms2[roomId] ELSE <<>>,
                          InRoom(sb, lv, roomId)) >>]

\* mutant of the join guards: truthiness only, no trim()
JoinErrorNoTrim(p) ==
  IF ~p.present \/ ~IsString(p.roomId) \/ ~Truthy(p.roomId)
    THEN "Invalid or missing roomId in join"
  ELSE IF ~p.present \/ ~IsString(p.userName) \/ ~Truthy(p.userName)
    THEN "Invalid or missing userName in join"
  ELSE ""

\* the two guards at the head of the join handler: the message of the
\* error it emits, or "" when the payload passes
JoinError(p) ==
  IF ~p.present \/ ~IsString(p.roomId) \/ Trim(p.roomId.v) = <<>>
    THEN "Invalid or missing roomId in join"
  ELSE IF ~p.present \/ ~IsString(p.userName) \/ Trim(p.userName.v) = <<>>
    THEN "Invalid or missing userName in join"
  ELSE ""

\* mutant: the old socket.io room is never left
JoinSubsNoLeave(c, roomId) ==
  [subs EXCEPT ![c] = @ \cup {roomId}]

\* socket.leave(socket.data.currentRoom) when in a room, then socket.join(roomId)
JoinSubs(c, roomId) ==
  [subs EXCEPT ![c] =
     (IF Truthy(currentRoom[c]) THEN @ \ {currentRoom[c]} ELSE @) \cup {roomId}]

\* rooms.set(roomId, new Set()) when the room is absent, then .add(userName)
AddName(rms, roomId, name) ==
  IF roomId \in DOMAIN rms
    THEN [rms EXCEPT ![roomId] = SetAdd(@, name)]
    ELSE [r \in DOMAIN rms \cup {roomId} |->
            IF r = roomId THEN <<name>> ELSE rms[r]]

\* mutant: the roster goes to the others only (socket.to instead of io.to)
JoinBroadcastToOthers(c, sb, rms, roomId) ==
  Emit("join", "userJoined", c, roomId, rms[roomId],
       InRoom(sb, live, roomId) \ {c})

\* io.to(roomId).emit("userJoined", Array.from(rooms.get(roomId)))
JoinBroadcast(c, sb, rms, roomId) ==
  Emit("join", "userJoined", c, roomId, rms[roomId], InRoom(sb, live, roomId))

\* socket.on("join"): what the handler writes and emits
JoinResult(c, p) ==
  IF JoinError(p) # ""
    THEN [currentRoom |-> currentRoom, userName |-> userName,
          rooms |-> rooms, subs |-> subs,
          out |-> << Emit("join", "error", c, Null, JoinError(p), {c}) >>]
    ELSE
      LET left == IF Truthy(currentRoom[c])
                    THEN SafeLeaveRoom(c, rooms, subs, live,
                                       currentRoom[c], userName[c])
                    ELSE [rooms |-> rooms, out |-> <<>>]
          subs2 == JoinSubs(c, p.roomId)
          rms2 == AddName(left.rooms, p.roomId, p.userName)
      IN [currentRoom |-> [currentRoom EXCEPT ![c] = p.roomId],
          userName |-> [userName EXCEPT ![c] = p.userName],
          rooms |-> rms2,
          subs |-> subs2,
          out |-> Append(left.out, JoinBroadcast(c, subs2, rms2, p.roomId))]

Join(c, p) ==
  /\ live[c]
  /\ LET r == JoinResult(c, p)
     IN /\ currentRoom' = r.currentRoom
        /\ userName' = r.userName
        /\ rooms' = r.rooms
        /\ subs' = r.subs
        /\ lastRoster' = NoteRosters(lastRoster, r.out)
  /\ nameClash' = (nameClash \/ Clash(live, currentRoom', userName'))
  /\ everJoined' = [everJoined EXCEPT ![c] = @ \/ JoinError(p) = ""]
  /\ UNCHANGED <<live, codeTimer, pendingCode, burst>>

\* mutant: the sender's recorded room is not compared with roomId
CodeChangeAcceptedAnyRoom(c, p) ==
  /\ IsString(p.roomId) /\ Truthy(p.roomId)
  /\ IsString(p.code)

\* the three guards at the head of the codeChange handler
CodeChangeAccepted(c, p) ==
  /\ IsString(p.roomId) /\ Truthy(p.roomId)
  /\ IsString(p.code)
  /\ currentRoom[c] = p.roomId

\* mutant: an edit arriving while the timer is armed does not replace the
\* pending one
StoreEditKeepsFirst(c, p) ==
  [pendingCode |-> [pendingCode EXCEPT ![c] =
                      IF codeTimer[c].armed THEN @ ELSE p.code],
   codeTimer |-> [codeTimer EXCEPT ![c] = Armed(p.roomId)],
   out |-> <<>>]

\* socket.data._pendingCode = code; clearTimeout of the old timer; setTimeout
StoreEdit(c, p) ==
  [pendingCode |-> [pendingCode EXCEPT ![c] = p.code],
   codeTimer |-> [codeTimer EXCEPT ![c] = Armed(p.roomId)],
   out |-> <<>>]

\* socket.on("codeChange"): what the handler writes and emits
CodeChangeResult(c, p) ==
  IF CodeChangeAccepted(c, p)
    THEN StoreEdit(c, p)
    ELSE [pendingCode |-> pendingCode, codeTimer |-> codeTimer, out |-> <<>>]

CodeChange(c, p) ==
  /\ live[c]
  /\ CodeChangeAccepted(c, p) => burst[c].n < MaxBurst
  /\ LET r == CodeChangeResult(c, p)
     IN /\ pendingCode' = r.pendingCode
        /\ codeTimer' = r.codeTimer
  /\ burst' = IF CodeChangeAccepted(c, p)
                THEN [burst EXCEPT ![c] = [n |-> @.n + 1, code |-> p.code]]
                ELSE burst
  /\ UNCHANGED <<live, currentRoom, userName, rooms, subs, lastRoster, nameClash,
                 everJoined>>

\* mutant: the flush goes to the whole room (io.to instead of socket.to)
ToOthersAndSender(c, r) == InRoom(subs, live, r)

\* socket.to(r): the live sockets in socket.io room r, the sender c excepted
ToOthers(c, r) == InRoom(subs, live, r) \ {c}

\* mutant: the callback emits and leaves the pending edit and the handle set
TimerFireResultKeepsTimer(c) ==
  [out |-> << Emit("codeChange", "codeUpdate", c, codeTimer[c].roomId,
                   pendingCode[c], InRoom(subs, live, codeTimer[c].roomId) \ {c}) >>,
   pendingCode |-> pendingCode,
   codeTimer |-> codeTimer]

\* the setTimeout callback armed by codeChange: what it writes and emits
TimerFireResult(c) ==
  [out |-> << Emit("codeChange", "codeUpdate", c, codeTimer[c].roomId,
                   pendingCode[c], ToOthers(c, codeTimer[c].roomId)) >>,
   pendingCode |-> [pendingCode EXCEPT ![c] = Null],
   codeTimer |-> [codeTimer EXCEPT ![c] = NoTimer]]

TimerFire(c) ==
  /\ codeTimer[c].armed
  /\ pendingCode' = TimerFireResult(c).pendingCode
  /\ codeTimer' = TimerFireResult(c).codeTimer
  /\ burst' = [burst EXCEPT ![c] = NoBurst]
  /\ UNCHANGED <<live, currentRoom, userName, rooms, subs, lastRoster, nameClash,
                 everJoined>>

\* mutant: leaveRoom clears the room and keeps the name
LeaveRoomResultKeepsName(c) ==
  LET inRoom == Truthy(currentRoom[c]) /\ Truthy(userName[c])
      left == IF inRoom
                THEN SafeLeaveRoom(c, rooms, subs, live,
                                   currentRoom[c], userName[c])
                ELSE [rooms |-> rooms, out |-> <<>>]
  IN [rooms |-> left.rooms,
      out |-> left.out,
      subs |-> IF inRoom
                 THEN [subs EXCEPT ![c] = @ \ {currentRoom[c]}]
                 ELSE subs,
      currentRoom |-> [currentRoom EXCEPT ![c] = Null],
      userName |-> userName]

\* socket.on("leaveRoom"): what the handler writes and emits
LeaveRoomResult(c) ==
  LET inRoom == Truthy(currentRoom[c]) /\ Truthy(userName[c])
      left == IF inRoom
                THEN SafeLeaveRoom(c, rooms, subs, live,
                                   currentRoom[c], userName[c])
                ELSE [rooms |-> rooms, out |-> <<>>]
  IN [rooms |-> left.rooms,
      out |-> left.out,
      subs |-> IF inRoom
                 THEN [subs EXCEPT ![c] = @ \ {currentRoom[c]}]
                 ELSE subs,
      currentRoom |-> [currentRoom EXCEPT ![c] = Null],
      userName |-> [userName EXCEPT ![c] = Null]]

LeaveRoom(c) ==
  /\ live[c]
  /\ LET r == LeaveRoomResult(c)
     IN /\ rooms' = r.rooms
        /\ subs' = r.subs
        /\ currentRoom' = r.currentRoom
        /\ userName' = r.userName
        /\ lastRoster' = NoteRosters(lastRoster, r.out)
  /\ UNCHANGED <<live, codeTimer, pendingCode, burst, nameClash, everJoined>>

\* mutant: typing is relayed only for a sender recorded in the room it names
TypingResultMembersOnly(c, p) ==
  IF currentRoom[c] # p.roomId
    THEN [out |-> <<>>]
    ELSE [out |-> << Emit("typing", "userTyping", c, p.roomId, p.userName,
                          InRoom(subs, live, p.roomId) \ {c}) >>]

\* socket.on("typing"): no guard; socket.to(roomId).emit("userTyping", userName)
TypingResult(c, p) ==
  [out |-> << Emit("typing", "userTyping", c, p.roomId, p.userName,
                   ToOthers(c, p.roomId)) >>]

\* the handler writes nothing
Typing(c, p) ==
  /\ live[c]
  /\ UNCHANGED svars

\* mutant: the language goes to the others only (socket.to instead of io.to)
LanguageBroadcastToOthers(c, p) ==
  Emit("languageChange", "languageUpdate", c, p.roomId, p.language,
       InRoom(subs, live, p.roomId) \ {c})

\* io.to(roomId).emit("languageUpdate", language)
LanguageBroadcast(c, p) ==
  Emit("languageChange", "languageUpdate", c, p.roomId, p.language,
       InRoom(subs, live, p.roomId))

\* socket.on("languageChange"): both fields must be strings, nothing else is
\* tested
LanguageChangeResult(c, p) ==
  IF ~IsString(p.roomId) \/ ~IsString(p.language)
    THEN [out |-> <<>>]
    ELSE [out |-> << LanguageBroadcast(c, p) >>]

\* the handler writes nothing
LanguageChange(c, p) ==
  /\ live[c]
  /\ UNCHANGED svars

\* mutant: the disconnect handler leaves the timer armed
DisconnectTimerKept(c) ==
  [codeTimer |-> codeTimer, pendingCode |-> pendingCode]

\* the disconnect handler's treatment of the debounce timer
DisconnectTimer(c) ==
  IF codeTimer[c].armed
    THEN [codeTimer |-> [codeTimer EXCEPT ![c] = NoTimer],
          pendingCode |-> [pendingCode EXCEPT ![c] = Null]]
    ELSE [codeTimer |-> codeTimer, pendingCode |-> pendingCode]

\* mutant: the disconnect handler does not run the leave path
DisconnectResultNoLeave(c) ==
  [live |-> [live EXCEPT ![c] = FALSE], subs |-> [subs EXCEPT ![c] = {}],
   rooms |-> rooms, out |-> <<>>,
   codeTimer |-> DisconnectTimer(c).codeTimer,
   pendingCode |-> DisconnectTimer(c).pendingCode]

\* socket.on("disconnect"): the transport has already taken the socket out
\* of every socket.io room when the handler runs
DisconnectResult(c) ==
  LET lv == [live EXCEPT ![c] = FALSE]
      sb == [subs EXCEPT ![c] = {}]
      left == IF Truthy(currentRoom[c]) /\ Truthy(userName[c])
                THEN SafeLeaveRoom(c, rooms, sb, lv,
                                   currentRoom[c], userName[c])
                ELSE [rooms |-> rooms, out |-> <<>>]
  IN [live |-> lv, subs |-> sb,
      rooms |-> left.rooms, out |-> left.out,
      codeTimer |-> DisconnectTimer(c).codeTimer,
      pendingCode |-> DisconnectTimer(c).pendingCode]

Disconnect(c) ==
  /\ live[c]
  /\ LET r == DisconnectResult(c)
     IN /\ live' = r.live
        /\ subs' = r.subs
        /\ rooms' = r.rooms
        /\ codeTimer' = r.codeTimer
        /\ pendingCode' = r.pendingCode
        /\ lastRoster' = NoteRosters(lastRoster, r.out)
        /\ burst' = IF r.codeTimer[c].armed THEN burst
                    ELSE [burst EXCEPT ![c] = NoBurst]
  /\ UNCHANGED <<currentRoom, userName, nameClash, everJoined>>

\* the server under arbitrary clients: any payload at any time, the pages
\* behind the sockets left out
Next ==
  \/ \E c \in Conns : Connect(c) /\ UNCHANGED cvars
  \/ \E c \in Conns : \E p \in JoinPayloads : Join(c, p) /\ UNCHANGED cvars
  \/ \E c \in Conns : \E p \in CodePayloads : CodeChange(c, p) /\ UNCHANGED cvars
  \/ \E c \in Conns : TimerFire(c) /\ UNCHANGED cvars
  \/ \E c \in Conns : LeaveRoom(c) /\ UNCHANGED cvars
  \/ \E c \in Conns : \E p \in TypingPayloads : Typing(c, p) /\ UNCHANGED cvars
  \/ \E c \in Conns : \E p \in LanguagePayloads :
       LanguageChange(c, p) /\ UNCHANGED cvars
  \/ \E c \in Conns : Disconnect(c) /\ UNCHANGED cvars

Spec == Init /\ [][Next]_vars

\* a timer that is armed and not cleared fires: the event loop runs the
\* callback of every setTimeout that stays pending
FairSpec == Spec /\ \A c \in Conns : WF_vars(TimerFire(c) /\ UNCHANGED cvars)

\* ---------------------------------------------------------------- clients
\* The server with the page of App.jsx behind every socket.  The page sends
\* join from its join screen only, with the room and name typed there; an
\* emit of the page and the server's handling of it are one step; a
\* codeUpdate travels, in order, through the inbox of its recipient.

\* the room the users of the pages share
ClientRooms == {Str(<<"A">>)}

\* the name the user of socket c types
ClientName == [c \in Conns |-> Str(<<c>>)]

\* a page is loaded and its socket connects
ClientConnect(c) ==
  /\ Connect(c)
  /\ clientCode' = [clientCode EXCEPT ![c] = InitialCode]
  /\ inbox' = [inbox EXCEPT ![c] = <<>>]
  /\ edited' = [edited EXCEPT ![c] = FALSE]
  /\ UNCHANGED lastFlush

\* joinRoom(), offered while the page shows the join screen
JoinRoom(c, r) ==
  /\ currentRoom[c] = Null
  /\ Join(c, JoinPayload(r, ClientName[c]))
  /\ UNCHANGED cvars

\* of the recipients of the last flush, socket c no longer counts
Unkeep(c) == [lastFlush EXCEPT !.kept = @ \ {c}]

\* leaveRoom() of the page: emits leaveRoom and resets the buffer
ClientLeaveRoom(c) ==
  /\ Truthy(currentRoom[c])
  /\ LeaveRoom(c)
  /\ clientCode' = [clientCode EXCEPT ![c] = InitialCode]
  /\ edited' = [edited EXCEPT ![c] = FALSE]
  /\ lastFlush' = Unkeep(c)
  /\ UNCHANGED inbox

\* the page goes away and the transport reports the disconnect
ClientDisconnect(c) ==
  /\ Disconnect(c)
  /\ clientCode' = [clientCode EXCEPT ![c] = InitialCode]
  /\ inbox' = [inbox EXCEPT ![c] = <<>>]
  /\ edited' = [edited EXCEPT ![c] = FALSE]
  /\ lastFlush' = Unkeep(c)

\* handleCodeChange(newCode) of a page showing the editor: setCode, then
\* emit codeChange with the page's room (the typing it also emits leaves no
\* state anywhere)
HandleCodeChange(c, newCode) ==
  /\ Truthy(currentRoom[c])
  /\ CodeChange(c, CodePayload(currentRoom[c], newCode))
  /\ clientCode' = [clientCode EXCEPT ![c] = newCode]
  /\ edited' = [edited EXCEPT ![c] = TRUE]
  /\ UNCHANGED <<inbox, lastFlush>>

\* the timer callback of socket c, its codeUpdate put on the way to the
\* sockets it is emitted to
Flush(c) ==
  LET e == TimerFireResult(c).out[1]
  IN /\ TimerFire(c)
     /\ \A d \in e.to : Len(inbox[d]) < MaxInbox
     /\ inbox' = [d \in Conns |->
                    IF d \in e.to THEN Append(inbox[d], e.payload) ELSE inbox[d]]
     /\ lastFlush' = Flushed(c, e.payload, e.to)
     /\ UNCHANGED <<clientCode, edited>>

\* mutant: the page takes the codeUpdate off the wire and keeps its buffer
OnCodeUpdateKeepsBuffer(c) ==
  /\ inbox[c] # <<>>
  /\ inbox' = [inbox EXCEPT ![c] = Tail(inbox[c])]
  /\ UNCHANGED <<svars, clientCode, edited, lastFlush>>

\* socket.on("codeUpdate", (newCode) => setCode(newCode)), registered
\* whatever screen the page shows
OnCodeUpdate(c) ==
  /\ inbox[c] # <<>>
  /\ clientCode' = [clientCode EXCEPT ![c] = Head(inbox[c])]
  /\ inbox' = [inbox EXCEPT ![c] = Tail(inbox[c])]
  /\ UNCHANGED <<svars, edited, lastFlush>>

ClientNext ==
  \/ \E c \in Conns : ClientConnect(c)
  \/ \E c \in Conns : \E r \in ClientRooms : JoinRoom(c, r)
  \/ \E c \in Conns : \E k \in CodeVals : HandleCodeChange(c, k)
  \/ \E c \in Conns : Flush(c)
  \/ \E c \in Conns : OnCodeUpdate(c)
  \/ \E c \in Conns : ClientLeaveRoom(c)
  \/ \E c \in Conns : ClientDisconnect(c)

ClientSpec == Init /\ [][ClientNext]_vars

\* ------------------------------------------------------------ observations
Live == {c \in Conns : live[c]}

\* the live sockets whose recorded current room is r
MembersOf(lv, cr, r) == {c \in Conns : lv[c] /\ cr[c] = r}
Members(r) == MembersOf(live, currentRoom, r)

\* the display names of the live sockets whose recorded current room is r
NamesIn(r) == {userName[c] : c \in Members(r)}

\* the participant set the directory stores for r (empty when r is no key)
RosterIn(rms, r) == IF r \in DOMAIN rms THEN Range(rms[r]) ELSE {}
RosterOf(r) == RosterIn(rooms, r)

\* a join payload the handler must refuse: missing, or a field that is no
\* string or is empty once trimmed
BlankOrNotString(x) == ~IsString(x) \/ Trim(x.v) = <<>>
InvalidJoinPayload(p) ==
  ~p.present \/ BlankOrNotString(p.roomId) \/ BlankOrNotString(p.userName)
InvalidJoins == {p \in JoinPayloads : InvalidJoinPayload(p)}
ValidJoins == JoinPayloads \ InvalidJoins

\* what the handlers other than the timer callback can emit in this state
HandlerEmits ==
  UNION ( {Range(JoinResult(c, p).out) : c \in Live, p \in JoinPayloads}
            \cup {Range(CodeChangeResult(c, p).out) : c \in Live, p \in CodePayloads}
            \cup {Range(LeaveRoomResult(c).out) : c \in Live}
            \cup {Range(TypingResult(c, p).out) : c \in Live, p \in TypingPayloads}
            \cup {Range(LanguageChangeResult(c, p).out) :
                    c \in Live, p \in LanguagePayloads}
            \cup {Range(DisconnectResult(c).out) : c \in Live} )

\* what the timer callbacks that are armed can emit in this state
TimerEmits ==
  UNION {Range(TimerFireResult(c).out) : c \in {d \in Conns : codeTimer[d].armed}}

\* ------------------------------------------------------------------ claims

\* C1: once leaveRoom has run for a socket (it is connected and in no room)
\* its pending edit and timer handle are both null, and no codeUpdate is
\* delivered for an edit whose author has left the room it was accepted in.
C1_LeaveDiscardsPendingEdit ==
  /\ \A c \in Live :
       currentRoom[c] = Null =>
         (~codeTimer[c].armed /\ pendingCode[c] = Null)
  /\ \A e \in TimerEmits : e.to # {} => currentRoom[e.from] = e.room

\* C2: disconnect cancels an armed timer and drops the pending edit: a
\* disconnected socket has no armed timer and no pending edit, so no timer
\* callback of it can run and emit a codeUpdate after the disconnect.
C2_DisconnectDropsPendingEdit ==
  /\ \A c \in Live :
       /\ ~DisconnectResult(c).codeTimer[c].armed
       /\ DisconnectResult(c).pendingCode[c] = Null
  /\ \A c \in Conns \ Live :
       ~codeTimer[c].armed /\ pendingCode[c] = Null
  /\ \A e \in TimerEmits : live[e.from]

\* a socket with an armed timer, another socket being in the room of the
\* edit, for which disconnect cancels the timer
C2_Witness ==
  \E c \in Live :
    /\ codeTimer[c].armed
    /\ InRoom(subs, live, codeTimer[c].roomId) \ {c} # {}
    /\ DisconnectResult(c).codeTimer[c] = NoTimer

\* C3: the N >= 1 edits accepted since a socket's timer was idle are flushed
\* by one codeUpdate, emitted when the timer fires, whose payload is the code
\* of the Nth edit; it goes to the room's other members when the author
\* stayed in the room; the timer is idle afterwards, a timer is armed only
\* while such edits are waiting, and no other handler emits a codeUpdate.
C3_BurstFlushedOnce ==
  /\ \A c \in Conns :
       /\ codeTimer[c].armed <=> burst[c].n >= 1
       /\ codeTimer[c].armed =>
            LET r == TimerFireResult(c)
            IN /\ Len(r.out) = 1
               /\ r.out[1].ev = "codeUpdate"
               /\ r.out[1].from = c
               /\ r.out[1].payload = burst[c].code
               /\ (live[c] /\ currentRoom[c] = codeTimer[c].roomId) =>
                    r.out[1].to = Members(currentRoom[c]) \ {c}
               /\ ~r.codeTimer[c].armed
               /\ r.pendingCode[c] = Null
  /\ \A e \in HandlerEmits : e.ev # "codeUpdate"

\* two edits or more are waiting behind one timer whose flush will reach
\* another socket
C3_Witness ==
  \E c \in Live :
    /\ burst[c].n >= 2
    /\ codeTimer[c].armed
    /\ currentRoom[c] = codeTimer[c].roomId
    /\ TimerFireResult(c).out[1].to # {}

\* C4: a codeUpdate is never delivered to the socket whose edit it carries.
C4_AuthorNeverReceivesOwnEdit ==
  \A e \in TimerEmits \cup HandlerEmits :
    e.ev = "codeUpdate" => e.from \notin e.to

\* a flush that reaches another socket while its author is still subscribed
\* to the room
C4_Witness ==
  \E e \in TimerEmits :
    /\ e.ev = "codeUpdate" /\ e.to # {}
    /\ live[e.from] /\ e.room \in subs[e.from]

\* C5 as stated: for every room the stored participant set, and the payload
\* of the last userJoined emitted for it, equal the set of display names of
\* the live sockets recorded in the room (any names, equal ones included).
C5_RosterEqualsMembers ==
  \A r \in RoomKeys :
    /\ RosterOf(r) = NamesIn(r)
    /\ lastRoster[r].sent => Range(lastRoster[r].users) = NamesIn(r)

\* C5 amended: the same, as long as no two live sockets have been recorded in
\* one room under the same display name.
C5_RosterEqualsMembersDistinctNames ==
  ~nameClash => C5_RosterEqualsMembers

\* a socket disconnected from a room in which another one remains, all names
\* having been distinct
C5_Witness ==
  /\ ~nameClash
  /\ \E r \in RoomKeys :
       /\ \E c \in Conns \ Live : currentRoom[c] = r
       /\ lastRoster[r].sent
       /\ Cardinality(NamesIn(r)) = 1

\* C6: every key of the room directory has a non-empty participant set (a
\* room without participants is no key), before and after every handler.
C6_RoomExistsIffOccupied ==
  \A r \in DOMAIN rooms : Len(rooms[r]) > 0

\* the last participant of a room left: the empty roster was emitted and the
\* room is gone from the directory, while another room is still there
C6_Witness ==
  /\ \E r \in RoomKeys :
       /\ lastRoster[r].sent
       /\ lastRoster[r].users = <<>>
       /\ r \notin DOMAIN rooms
  /\ DOMAIN rooms # {}

\* a socket is subscribed to its recorded current room and to no other
SingleRoom ==
  \A c \in Conns :
    subs[c] = IF live[c] /\ currentRoom[c] # Null THEN {currentRoom[c]} ELSE {}

\* the leave path ran for the old room of c: its roster without the old name
\* was broadcast to it first, then the new room's roster with the new name
SwitchBroadcasts(c, r) ==
  /\ Len(r.out) = 2
  /\ r.out[1].site = "safeLeaveRoom"
  /\ r.out[1].ev = "userJoined"
  /\ r.out[1].room = currentRoom[c]
  /\ userName[c] \notin Range(r.out[1].payload)
  /\ r.out[2].site = "join"
  /\ r.out[2].room = r.currentRoom[c]
  /\ r.userName[c] \in Range(r.out[2].payload)

\* after the join the socket is counted in the new room only
SwitchCounted(c, r) ==
  /\ r.subs[c] = {r.currentRoom[c]}
  /\ r.userName[c] \in RosterIn(r.rooms, r.currentRoom[c])
  /\ r.currentRoom[c] # currentRoom[c] =>
       userName[c] \notin RosterIn(r.rooms, currentRoom[c])

\* the live sockets that are recorded in a room
Joined == {c \in Live : Truthy(currentRoom[c])}

\* C7 as stated: a socket is subscribed to at most one room, its recorded
\* one, and every valid join of a socket recorded in room A removes its name
\* from A with a roster broadcast to A before adding it to B.
C7_SwitchLeavesOldRoom ==
  /\ SingleRoom
  /\ \A c \in Joined : \A p \in ValidJoins :
       /\ SwitchBroadcasts(c, JoinResult(c, p))
       /\ SwitchCounted(c, JoinResult(c, p))

\* C7 amended: the roster broadcast to A happens when A is still a key of the
\* directory; when A was already deleted (a socket of the same name left it)
\* the join emits the new room's roster only.
C7_SwitchLeavesOldRoomIfListed ==
  /\ SingleRoom
  /\ \A c \in Joined : \A p \in ValidJoins :
       LET r == JoinResult(c, p)
       IN /\ SwitchCounted(c, r)
          /\ IF currentRoom[c] \in DOMAIN rooms
               THEN SwitchBroadcasts(c, r)
               ELSE /\ Len(r.out) = 1
                    /\ r.out[1].site = "join"
                    /\ r.out[1].room = r.currentRoom[c]

\* a socket is in a room with another one and a join takes it to a different
\* room, the member left behind receiving the old room's roster
C7_Witness ==
  \E c \in Joined : \E p \in ValidJoins :
    /\ p.roomId # currentRoom[c]
    /\ Members(currentRoom[c]) \ {c} # {}
    /\ Len(JoinResult(c, p).out) = 2
    /\ JoinResult(c, p).out[1].to \ {c} # {}
    /\ JoinResult(c, p).out[1].payload # <<>>

\* C8: a join with an invalid payload emits exactly one error, to the sender
\* alone, and changes nothing: directory, subscriptions, every socket's room
\* and name stay as they were (pending edits and timers are not written).
C8_InvalidJoinChangesNothing ==
  \A c \in Live : \A p \in InvalidJoins :
    LET r == JoinResult(c, p)
    IN /\ Len(r.out) = 1
       /\ r.out[1].ev = "error"
       /\ r.out[1].to = {c}
       /\ r.rooms = rooms
       /\ r.subs = subs
       /\ r.currentRoom = currentRoom
       /\ r.userName = userName

\* a socket in a room with another one, whose invalid joins are refused
C8_Witness ==
  \E c \in Joined :
    /\ Cardinality(Members(currentRoom[c])) = 2
    /\ \A p \in InvalidJoins : JoinResult(c, p).out[1].ev = "error"

\* the userJoined emits of safeLeaveRoom among the emits es of a handler that
\* ran for socket c go to sockets that are members of the room afterwards,
\* not to c, and none with an empty list reaches a socket
LeaveRosterOK(c, es, lv, cr) ==
  \A e \in Range(es) :
    e.site = "safeLeaveRoom" =>
      /\ c \notin e.to
      /\ e.to \subseteq MembersOf(lv, cr, e.room)
      /\ e.payload = <<>> => e.to = {}

\* C9 as stated: the userJoined triggered by a socket leaving a room
\* (leaveRoom, disconnect, join of another room) is delivered only to the
\* sockets that remain members, never to the leaving one, and never with an
\* empty list.
C9_LeaveRosterOnlyToRemaining ==
  \A c \in Live :
    /\ LeaveRosterOK(c, LeaveRoomResult(c).out, live,
                     LeaveRoomResult(c).currentRoom)
    /\ LeaveRosterOK(c, DisconnectResult(c).out, DisconnectResult(c).live,
                     currentRoom)
    /\ \A p \in ValidJoins :
         \A e \in Range(JoinResult(c, p).out) :
           e.site = "safeLeaveRoom" =>
             /\ c \notin e.to
             /\ e.payload = <<>> => e.to = {}

\* the roster sent when c leaves is the room's stored list without the name
\* of c, empty when that name was the last one stored
RosterWithoutLeaver(c, e) ==
  Range(e.payload) = RosterOf(e.room) \ {userName[c]}

\* C9 amended: the userJoined of a leave goes to every socket subscribed to
\* the room when the leave path runs: all remaining members, and the leaving
\* socket too on leaveRoom and on join (it is unsubscribed afterwards) but
\* not on disconnect; the list sent is the stored one without the leaver's
\* name, and the empty list of a deleted room is sent like any other.
C9_LeaveRosterToSubscribers ==
  \A c \in Live :
    /\ \A e \in Range(LeaveRoomResult(c).out) :
         /\ e.site = "safeLeaveRoom"
         /\ e.room = currentRoom[c]
         /\ e.to = Members(e.room)
         /\ c \in e.to
         /\ RosterWithoutLeaver(c, e)
    /\ \A e \in Range(DisconnectResult(c).out) :
         /\ e.site = "safeLeaveRoom"
         /\ e.room = currentRoom[c]
         /\ e.to = Members(e.room) \ {c}
         /\ RosterWithoutLeaver(c, e)
    /\ \A p \in ValidJoins :
         \A e \in Range(JoinResult(c, p).out) :
           e.site = "safeLeaveRoom" =>
             /\ e.room = currentRoom[c]
             /\ e.to = Members(e.room)
             /\ c \in e.to
             /\ RosterWithoutLeaver(c, e)

\* the only member of a room, whose leaveRoom delivers the empty roster to
\* the leaving socket itself
C9_Witness ==
  \E c \in Joined :
    /\ Members(currentRoom[c]) = {c}
    /\ Len(LeaveRoomResult(c).out) = 1
    /\ LeaveRoomResult(c).out[1].payload = <<>>
    /\ LeaveRoomResult(c).out[1].to = {c}

\* C10: a valid join ends with one userJoined for the joined room, delivered
\* to every socket recorded in the room after the join, the joiner included,
\* carrying the participant set as stored with the joiner's name in it; it
\* is the only emit of the join itself.
C10_JoinBroadcastsFullRoster ==
  \A c \in Live : \A p \in ValidJoins :
    LET r == JoinResult(c, p)
        e == r.out[Len(r.out)]
    IN /\ Len(r.out) >= 1
       /\ e.ev = "userJoined"
       /\ e.room = p.roomId
       /\ e.to = MembersOf(live, r.currentRoom, p.roomId)
       /\ c \in e.to
       /\ p.roomId \in DOMAIN r.rooms
       /\ e.payload = r.rooms[p.roomId]
       /\ p.userName \in Range(e.payload)
       /\ Cardinality({i \in 1 .. Len(r.out) : r.out[i].site = "join"}) = 1

\* a socket joins a room that has a member of another name: both get the
\* roster of two
C10_Witness ==
  \E c \in Live : \E p \in ValidJoins :
    LET r == JoinResult(c, p)
    IN /\ Members(p.roomId) \ {c} # {}
       /\ Cardinality(r.out[Len(r.out)].to) = 2
       /\ Len(r.out[Len(r.out)].payload) = 2

\* the live sockets none of whose joins has been accepted
NeverJoined == {c \in Live : ~everJoined[c]}

\* what the handlers of socket c can emit in this state, its armed timer's
\* callback included
EmitsOf(c) ==
  UNION ( {Range(JoinResult(c, p).out) : p \in InvalidJoins}
            \cup {Range(CodeChangeResult(c, p).out) : p \in CodePayloads}
            \cup {Range(TypingResult(c, p).out) : p \in TypingPayloads}
            \cup {Range(LanguageChangeResult(c, p).out) : p \in LanguagePayloads}
            \cup {Range(LeaveRoomResult(c).out)}
            \cup (IF codeTimer[c].armed THEN {Range(TimerFireResult(c).out)} ELSE {}) )

RoomEvents == {"codeUpdate", "userTyping", "languageUpdate", "userJoined"}

\* everything socket d can emit in this state: the above, its valid joins and
\* its disconnect
AllEmitsOf(d) ==
  EmitsOf(d)
    \cup UNION {Range(JoinResult(d, p).out) : p \in ValidJoins}
    \cup Range(DisconnectResult(d).out)

\* no room event reaches socket c: none emitted for another socket, none
\* emitted for c itself short of an accepted join
NeverTarget(c) ==
  /\ \A e \in EmitsOf(c) : e.ev \in RoomEvents => c \notin e.to
  /\ \A d \in Live \ {c} : \A e \in AllEmitsOf(d) :
       e.ev \in RoomEvents => c \notin e.to

C12_LanguageChangeReachesRoom ==
  \A c \in Joined : \A l \in LanguageVals :
    LET r == LanguageChangeResult(c, LanguagePayload(currentRoom[c], l))
    IN /\ DOMAIN r = {"out"}
       /\ Len(r.out) = 1
       /\ r.out[1].ev = "languageUpdate"
       /\ r.out[1].payload = l
       /\ r.out[1].to = Members(currentRoom[c])
       /\ c \in r.out[1].to

\* a member of a room of two, whose languageChange reaches both
C12_Witness ==
  \E c \in Joined :
    /\ Cardinality(Members(currentRoom[c])) = 2
    /\ \A l \in LanguageVals :
         Cardinality(LanguageChangeResult(
                       c, LanguagePayload(currentRoom[c], l)).out[1].to) = 2

\* C13: the codeUpdate of a firing timer reaches only sockets recorded in the
\* room that is the author's recorded current room when the timer fires (so
\* none in a room the author has left for another since the edit).
C13_FlushGoesToCurrentRoom ==
  \A e \in TimerEmits : \A d \in e.to :
    /\ Truthy(currentRoom[e.from])
    /\ currentRoom[d] = currentRoom[e.from]

\* C14: a codeChange whose roomId is not the sender's recorded current room
\* (the sender being in another room or in none) has no effect: pending edit
\* and timer of every socket stay as they are, an armed timer keeping its
\* content, the handler writes no other field, and it emits nothing.
C14_WrongRoomEditDropped ==
  \A c \in Live : \A p \in CodePayloads :
    p.roomId # currentRoom[c] =>
      LET r == CodeChangeResult(c, p)
      IN /\ DOMAIN r = {"pendingCode", "codeTimer", "out"}
         /\ r.pendingCode = pendingCode
         /\ r.codeTimer = codeTimer
         /\ r.out = <<>>

\* a socket with an armed timer and a pending edit, for which a well-formed
\* codeChange naming another room is dropped
C14_Witness ==
  \E c \in Joined : \E p \in CodePayloads :
    /\ codeTimer[c].armed
    /\ pendingCode[c] # p.code
    /\ IsString(p.code)
    /\ p.roomId \in RoomKeys \ {currentRoom[c]}
    /\ CodeChangeResult(c, p).pendingCode[c] = pendingCode[c]

\* a payload that is absent, or has a field absent or no string
Malformed(p, field) == ~p.present \/ ~IsString(p.roomId) \/ ~IsString(p[field])

\* C15: a codeChange, typing or languageChange whose payload is absent, or
\* whose roomId or other field is absent or no string, is dropped: nothing
\* is delivered to any socket and codeChange writes nothing.
C15_MalformedPayloadDropped ==
  \A c \in Live :
    /\ \A p \in CodePayloads :
         Malformed(p, "code") =>
           /\ \A e \in Range(CodeChangeResult(c, p).out) : e.to = {}
           /\ CodeChangeResult(c, p).pendingCode = pendingCode
           /\ CodeChangeResult(c, p).codeTimer = codeTimer
    /\ \A p \in TypingPayloads :
         Malformed(p, "userName") =>
           \A e \in Range(TypingResult(c, p).out) : e.to = {}
    /\ \A p \in LanguagePayloads :
         Malformed(p, "language") =>
           \A e \in Range(LanguageChangeResult(c, p).out) : e.to = {}

\* room and name of socket c are both null or both set
RoomAndName(cr, un, c) == (cr[c] = Null) <=> (un[c] = Null)

\* C16: for every live socket the recorded room and the recorded name are
\* both null or both set, in every reachable state and after every join
\* (accepted or refused), leaveRoom and codeChange (which writes neither).
C16_RoomAndNameSetTogether ==
  \A c \in Live :
    /\ RoomAndName(currentRoom, userName, c)
    /\ \A p \in JoinPayloads :
         RoomAndName(JoinResult(c, p).currentRoom, JoinResult(c, p).userName, c)
    /\ RoomAndName(LeaveRoomResult(c).currentRoom, LeaveRoomResult(c).userName, c)
    /\ \A p \in CodePayloads :
         {"currentRoom", "userName"} \cap DOMAIN CodeChangeResult(c, p) = {}

\* a socket in a room, both fields set, whose leaveRoom nulls both, next to
\* a socket that has left a room and has both null
C16_Witness ==
  \E c \in Joined :
    /\ userName[c] # Null
    /\ LeaveRoomResult(c).currentRoom[c] = Null
    /\ LeaveRoomResult(c).userName[c] = Null
    /\ \E d \in Live \ Joined : everJoined[d] /\ userName[d] = Null

\* how often name x occurs in the stored list s
Occurrences(s, x) == Cardinality({i \in 1 .. Len(s) : s[i] = x})

\* the pairs of distinct live sockets recorded in one room under one name
SameNamePairs ==
  {cd \in Conns \X Conns :
     /\ cd[1] # cd[2] /\ live[cd[1]] /\ live[cd[2]]
     /\ Truthy(currentRoom[cd[1]]) /\ currentRoom[cd[1]] = currentRoom[cd[2]]
     /\ userName[cd[1]] = userName[cd[2]]}

\* C17: identity is the name: when two live sockets are recorded in one
\* room under one name the roster holds the name once, and when either
\* leaves or disconnects the name leaves the roster, the room leaving the
\* directory when the roster is empty, though the other is still recorded.
C17_IdentityKeyedByName ==
  \A cd \in SameNamePairs :
    LET c == cd[1]
        d == cd[2]
        r == currentRoom[c]
        gone(rms) == /\ userName[d] \notin RosterIn(rms, r)
                     /\ r \in DOMAIN rms => Len(rms[r]) > 0
                     /\ RosterOf(r) = {userName[c]} => r \notin DOMAIN rms
    IN /\ r \in DOMAIN rooms
       /\ Occurrences(rooms[r], userName[c]) = 1
       /\ gone(LeaveRoomResult(c).rooms)
       /\ gone(DisconnectResult(c).rooms)
       /\ LeaveRoomResult(c).currentRoom[d] = r
       /\ DisconnectResult(c).live[d]

\* two live sockets alone in a room under one name: the leave of one empties
\* and deletes the room
C17_Witness ==
  \E cd \in SameNamePairs :
    /\ RosterOf(currentRoom[cd[1]]) = {userName[cd[1]]}
    /\ currentRoom[cd[1]] \notin DOMAIN LeaveRoomResult(cd[1]).rooms

\* C18: no stale entry: every name stored for a room is the recorded name of
\* a live socket whose recorded current room is that room.
C18_NoStaleRosterEntry ==
  \A r \in RoomKeys : RosterOf(r) \subseteq NamesIn(r)

\* a room that kept one member when another socket recorded in it was
\* disconnected: the roster, as last broadcast, holds the one name
C18_Witness ==
  \E r \in RoomKeys :
    /\ Cardinality(RosterOf(r)) = 1
    /\ Cardinality(Members(r)) = 1
    /\ \E c \in Conns \ Live : currentRoom[c] = r
    /\ lastRoster[r].sent /\ Len(lastRoster[r].users) = 1

\* the firing of the armed timer of c delivers the pending content to every
\* other socket of the room c is recorded in, and clears edit and handle
FlushDelivers(c) ==
  LET r == TimerFireResult(c)
  IN /\ Len(r.out) = 1
     /\ r.out[1].ev = "codeUpdate"
     /\ r.out[1].payload = pendingCode[c]
     /\ pendingCode[c] = burst[c].code
     /\ (live[c] /\ currentRoom[c] = codeTimer[c].roomId) =>
          r.out[1].to = Members(currentRoom[c]) \ {c}
     /\ r.pendingCode[c] = Null
     /\ r.codeTimer[c] = NoTimer

\* the armed timer of a socket that stays connected goes idle in this step
\* only by firing
IdleOnlyByFiring(c) ==
  (codeTimer[c].armed /\ ~codeTimer'[c].armed /\ live'[c]) =>
    /\ codeTimer' = TimerFireResult(c).codeTimer
    /\ pendingCode' = TimerFireResult(c).pendingCode

\* C20: under fairness of timer firing an accepted edit is eventually
\* flushed: a socket whose nth edit of a burst waits behind the armed timer
\* reaches, unless it is disconnected or has a further edit accepted first,
\* a state where the timer has fired, which delivers one codeUpdate with
\* the pending content to every other socket of its room and leaves pending
\* edit and timer handle null.
C20_AcceptedEditEventuallyFlushed ==
  /\ [](\A c \in Conns : codeTimer[c].armed => FlushDelivers(c))
  /\ [][\A c \in Conns : IdleOnlyByFiring(c)]_vars
  /\ \A c \in Conns : \A n \in 1 .. MaxBurst :
       (codeTimer[c].armed /\ burst[c].n = n) ~>
         \/ ~live[c]
         \/ codeTimer[c].armed /\ burst[c].n # n
         \/ ~codeTimer[c].armed /\ pendingCode[c] = Null

\* one edit is waiting behind the timer of a socket in a room of two: the
\* firing will deliver it to the other member
C20_Witness ==
  \E c \in Joined :
    /\ codeTimer[c].armed
    /\ burst[c].n = 1
    /\ currentRoom[c] = codeTimer[c].roomId
    /\ Cardinality(Members(currentRoom[c])) = 2
    /\ TimerFireResult(c).out[1].payload = pendingCode[c]

\* every timer has fired and every codeUpdate has been handled
Quiet == \A c \in Conns : ~codeTimer[c].armed /\ inbox[c] = <<>>

\* the rooms with two members or more, each of which had an edit accepted
\* since it entered
EditedRooms ==
  {r \in RoomKeys :
     Cardinality(Members(r)) >= 2 /\ \A c \in Members(r) : edited[c]}

====
